---------------------------- MODULE Spec2Model ----------------------------
(***************************************************************************)
(* A model of libcolord's CdClient (src/libcolord/cd-client.c): the        *)
(* process-wide client object, its connection to the colord daemon, the    *)
(* synchronous calls that turn object paths of a reply into CdDevice and   *)
(* CdProfile objects, and the callback for the daemon's D-Bus signals.     *)
(*                                                                         *)
(* The program is modelled as built by default, with GLib's precondition   *)
(* checks (g_return_val_if_fail) compiled in.  Every public function is    *)
(* one atomic action in Spec, where the caller is single threaded;         *)
(* SpecThreads runs cd_client_new and cd_client_connect_sync from several  *)
(* threads, a step for each of their accesses to shared memory.            *)
(*                                                                         *)
(* Objects live at addresses.  The allocator hands out the lowest free     *)
(* address, so a new object may lie where a freed one lay; nothing in the  *)
(* program reads an address as a number.                                   *)
(***************************************************************************)
EXTENDS Integers, Sequences, FiniteSets, TLC

(***************************************************************************)
(* Bounds of the model.                                                    *)
(***************************************************************************)
MaxInstances == 2  \* addresses a CdClient, or a GDBusProxy, can be allocated at
MaxRefs == 2       \* references the callers hold on one client at a time
MaxPaths == 2      \* object paths in one reply
MaxThreads == 2    \* threads calling into the client in SpecThreads

NULL == 0

Instances == 1 .. MaxInstances
Proxies == 1 .. MaxInstances
Threads == 1 .. MaxThreads

(* The values of the daemon's "Title" property in a new proxy's cache;     *)
(* "NULL" is the property being absent from the cache.                     *)
Titles == {"NULL", "0.1.0"}

(* How a blocking call on the bus ends. *)
CallOutcomes == {"reply", "error", "cancelled"}

VARIABLES
    cd_client_object,   \* the file-static weak pointer, NULL or an instance
    clients,            \* the CdClient objects ever allocated, by address
    proxies,            \* the GDBusProxy objects ever created, by address
    held,               \* references the callers hold, per instance
    ret,                \* what the last public call returned to its caller
    heap,               \* the CdDevice/CdProfile objects made by the last call
    calls,              \* the D-Bus methods the last call invoked on the proxy
    binds,              \* the binds the last call tried, in order: path and end
    frame,              \* the last signal frame handed to the callback
    emitted,            \* the GObject signals that callback emitted
    Title,              \* the daemon's "Title" property, as the bus serves it now
    threads             \* where each thread stands inside a call (SpecThreads)

vars == <<cd_client_object, clients, proxies, held, ret, heap, calls,
          binds, frame, emitted, Title, threads>>

objVars == <<cd_client_object, clients, proxies, held>>
callVars == <<ret, heap, calls, binds>>
signalVars == <<frame, emitted>>

\* A thread that is in no call of the client.
IdleThread == [pc |-> "idle", client |-> NULL]

\* What the code of a call made by the only running thread leaves alone: the
\* daemon's property, and the threads, none of which is inside a call.
SingleThreaded == UNCHANGED <<Title, threads>>

(***************************************************************************)
(* GError.  NoError is an error location the call left untouched.          *)
(***************************************************************************)
NoError == [domain |-> "NULL", code |-> "NULL", message |-> "NULL"]

\* g_set_error (error, CD_CLIENT_ERROR, CD_CLIENT_ERROR_FAILED, prefix ": %s", cause)
ClientError(prefix, cause) ==
    [domain |-> "CD_CLIENT_ERROR", code |-> "CD_CLIENT_ERROR_FAILED",
     message |-> <<prefix, cause.message>>]

\* What GDBus reports for a call, or a proxy construction, that did not succeed.
TransportError(outcome) ==
    IF outcome = "cancelled"
    THEN [domain |-> "G_IO_ERROR", code |-> "G_IO_ERROR_CANCELLED",
          message |-> "Operation was cancelled"]
    ELSE [domain |-> "G_DBUS_ERROR", code |-> "G_DBUS_ERROR_FAILED",
          message |-> "remote error"]

(***************************************************************************)
(* The CdClient object: GObject reference count and CdClientPrivate.       *)
(***************************************************************************)
\* Memory g_object_new has not handed out.
Unallocated ==
    [allocated |-> FALSE, ref_count |-> 0, finalized |-> 0,
     proxy |-> NULL, daemon_version |-> "NULL"]

\* g_object_new (CD_TYPE_CLIENT, NULL): one reference, zero-filled private data.
cd_client_init ==
    [allocated |-> TRUE, ref_count |-> 1, finalized |-> 0,
     proxy |-> NULL, daemon_version |-> "NULL"]

NoProxy == [state |-> "none", ref_count |-> 0, unrefs |-> 0, handlers |-> 0]

\* The allocator hands out the lowest free address, so the memory of a freed
\* object is used again by the next one (NULL when no address is free).
FreshProxy ==
    IF \E p \in Proxies : proxies[p].state # "live"
    THEN CHOOSE p \in Proxies : /\ proxies[p].state # "live"
                                /\ \A q \in Proxies : q < p => proxies[q].state = "live"
    ELSE NULL

FreshInstance ==
    IF \E c \in Instances : ~clients[c].allocated
    THEN CHOOSE c \in Instances : /\ ~clients[c].allocated
                                  /\ \A d \in Instances : d < c => clients[d].allocated
    ELSE NULL

\* g_object_unref (proxy): the last reference destroys it with its handlers.
ProxyUnref(ps, p) ==
    [ps EXCEPT ![p] = [state |-> IF @.ref_count = 1 THEN "freed" ELSE @.state,
                       ref_count |-> @.ref_count - 1,
                       unrefs |-> @.unrefs + 1,
                       handlers |-> IF @.ref_count = 1 THEN 0 ELSE @.handlers]]

\* The outcome of no call at all.
Idle == [op |-> "none", client |-> NULL, value |-> "NULL", result |-> <<>>,
         error |-> NoError, error_sets |-> 0]

NoFrame == [signal_name |-> "NULL", object_path |-> "NULL"]

Init ==
    /\ cd_client_object = NULL
    /\ clients = [c \in Instances |-> Unallocated]
    /\ proxies = [p \in Proxies |-> NoProxy]
    /\ held = [c \in Instances |-> 0]
    /\ ret = Idle
    /\ heap = <<>>
    /\ calls = <<>>
    /\ binds = <<>>
    /\ frame = NoFrame
    /\ emitted = <<>>
    /\ Title \in Titles
    /\ threads = [t \in Threads |-> IdleThread]

(***************************************************************************)
(* ret, heap, calls, binds, frame and emitted describe the step taken      *)
(* last: every action of the model writes them anew.                       *)
(***************************************************************************)
Returned(op, c, value, result, error, sets) ==
    [op |-> op, client |-> c, value |-> value, result |-> result,
     error |-> error, error_sets |-> sets]

NoCalls ==
    /\ heap' = <<>>
    /\ calls' = <<>>
    /\ binds' = <<>>

NoSignal ==
    /\ frame' = NoFrame
    /\ emitted' = <<>>

(***************************************************************************)
(* cd_client_new: the singleton constructor.                               *)
(***************************************************************************)
\* A slip: no look at cd_client_object, every request makes an object.
cd_client_new_always_constructs ==
    /\ FreshInstance # NULL
    /\ clients' = [clients EXCEPT ![FreshInstance] = cd_client_init]
    /\ cd_client_object' = FreshInstance
    /\ held' = [held EXCEPT ![cd_client_object'] = @ + 1]
    /\ ret' = Returned("new", cd_client_object', "OBJECT", <<>>, NoError, 0)
    /\ NoCalls
    /\ NoSignal
    /\ SingleThreaded
    /\ UNCHANGED proxies

cd_client_new ==
    /\ IF cd_client_object # NULL
       THEN /\ clients[cd_client_object].ref_count < MaxRefs
            /\ clients' = [clients EXCEPT ![cd_client_object].ref_count = @ + 1]
            /\ cd_client_object' = cd_client_object
       ELSE /\ FreshInstance # NULL
            /\ clients' = [clients EXCEPT ![FreshInstance] = cd_client_init]
            /\ cd_client_object' = FreshInstance
    /\ held' = [held EXCEPT ![cd_client_object'] = @ + 1]
    /\ ret' = Returned("new", cd_client_object', "OBJECT", <<>>, NoError, 0)
    /\ NoCalls
    /\ NoSignal
    /\ SingleThreaded
    /\ UNCHANGED proxies

(***************************************************************************)
(* cd_client_finalize, run by the g_object_unref that drops the last       *)
(* reference.  The weak pointer registered by cd_client_new is cleared     *)
(* before finalize runs.                                                   *)
(***************************************************************************)
cd_client_finalize(cs, c) ==
    [cs EXCEPT ![c].finalized = @ + 1, ![c].daemon_version = "NULL",
               ![c].allocated = FALSE]

\* A slip: finalize frees the version and forgets the proxy.
FinalizeKeepsProxy(ps, c) == ps

\* if (client->priv->proxy != NULL) g_object_unref (client->priv->proxy)
FinalizeProxies(ps, c) ==
    IF clients[c].proxy # NULL THEN ProxyUnref(ps, clients[c].proxy) ELSE ps

\* A caller drops one of the references it holds: g_object_unref (client).
g_object_unref(c) ==
    /\ held[c] > 0
    /\ held' = [held EXCEPT ![c] = @ - 1]
    /\ IF clients[c].ref_count = 1
       THEN /\ cd_client_object' = NULL   \* the weak pointer's location is cleared
            /\ clients' = cd_client_finalize(
                              [clients EXCEPT ![c].ref_count = 0], c)
            /\ proxies' = FinalizeProxies(proxies, c)
       ELSE /\ clients' = [clients EXCEPT ![c].ref_count = @ - 1]
            /\ UNCHANGED <<cd_client_object, proxies>>
    /\ ret' = Returned("unref", c, "NULL", <<>>, NoError, 0)
    /\ NoCalls
    /\ NoSignal
    /\ SingleThreaded

(***************************************************************************)
(* cd_client_connect_sync.  `outcome` is how g_dbus_proxy_new_for_bus_sync *)
(* ends: "reply" stands for a proxy, anything else for NULL and an error.  *)
(***************************************************************************)
\* g_return_val_if_fail (client->priv->proxy == NULL, FALSE)
ConnectPrecondition(c) == clients[c].proxy = NULL

\* A new proxy, holding one reference, with cd_client_dbus_signal_cb connected
\* to its "g-signal".
NewProxy == [state |-> "live", ref_count |-> 1, unrefs |-> 0, handlers |-> 1]

\* A slip: a property that is absent is cached as the empty string.
CachedVersionEmptyWhenAbsent(c, title) ==
    IF title # "NULL" THEN title ELSE ""

\* client->priv->daemon_version after the lookup of "Title" in the proxy's
\* cache, which holds `title` ("NULL": the property is not in the cache).
CachedVersion(c, title) ==
    IF title # "NULL" THEN title ELSE clients[c].daemon_version

\* A slip: the field keeps the address of the proxy that could not be made.
ConnectSyncKeepsFailedProxy(c, outcome, title) ==
    /\ held[c] > 0
    /\ FreshProxy # NULL
    /\ IF ~ConnectPrecondition(c)
       THEN /\ ret' = Returned("connect", c, "FALSE", <<>>, NoError, 0)
            /\ UNCHANGED <<clients, proxies>>
       ELSE IF outcome = "reply"
       THEN /\ proxies' = [proxies EXCEPT ![FreshProxy] = NewProxy]
            /\ clients' = [clients EXCEPT ![c].proxy = FreshProxy,
                                          ![c].daemon_version = CachedVersion(c, title)]
            /\ ret' = Returned("connect", c, "TRUE", <<>>, NoError, 0)
       ELSE /\ clients' = [clients EXCEPT ![c].proxy = FreshProxy]
            /\ ret' = Returned("connect", c, "FALSE", <<>>,
                               ClientError("Failed to connect to colord",
                                           TransportError(outcome)), 1)
            /\ UNCHANGED proxies
    /\ NoCalls
    /\ NoSignal
    /\ SingleThreaded
    /\ UNCHANGED <<cd_client_object, held>>

cd_client_connect_sync(c, outcome, title) ==
    /\ held[c] > 0
    /\ IF ~ConnectPrecondition(c)
       THEN /\ ret' = Returned("connect", c, "FALSE", <<>>, NoError, 0)
            /\ UNCHANGED <<clients, proxies>>
       ELSE IF outcome = "reply"
       THEN /\ FreshProxy # NULL
            /\ proxies' = [proxies EXCEPT ![FreshProxy] = NewProxy]
            /\ clients' = [clients EXCEPT ![c].proxy = FreshProxy,
                                          ![c].daemon_version = CachedVersion(c, title)]
            /\ ret' = Returned("connect", c, "TRUE", <<>>, NoError, 0)
       ELSE /\ clients' = [clients EXCEPT ![c].proxy = NULL]
            /\ ret' = Returned("connect", c, "FALSE", <<>>,
                               ClientError("Failed to connect to colord",
                                           TransportError(outcome)), 1)
            /\ UNCHANGED proxies
    /\ NoCalls
    /\ NoSignal
    /\ SingleThreaded
    /\ UNCHANGED <<cd_client_object, held>>

(***************************************************************************)
(* cd_client_get_daemon_version: the cached string, no check of the proxy. *)
(***************************************************************************)
\* A slip: the call asks the bus for the property instead of the cached string.
GetDaemonVersionRefreshes(c) ==
    /\ held[c] > 0
    /\ ret' = Returned("daemon_version", c, Title, <<>>, NoError, 0)
    /\ NoCalls
    /\ NoSignal
    /\ SingleThreaded
    /\ UNCHANGED objVars

cd_client_get_daemon_version(c) ==
    /\ held[c] > 0
    /\ ret' = Returned("daemon_version", c, clients[c].daemon_version, <<>>,
                       NoError, 0)
    /\ NoCalls
    /\ NoSignal
    /\ SingleThreaded
    /\ UNCHANGED objVars

(***************************************************************************)
(* cd_client_dbus_signal_cb: the handler of the proxy's "g-signal".  It    *)
(* yields the GObject signals the callback emits on the client, in order.  *)
(***************************************************************************)
SignalNames == {"Changed", "DeviceAdded", "DeviceRemoved", "ProfileAdded",
                "ProfileRemoved", "FooBar"}

PathSignals == {"DeviceAdded", "DeviceRemoved", "ProfileAdded", "ProfileRemoved"}

DevicePaths == {"/org/example/colord/devices/dev1",
                "/org/example/colord/devices/dev2"}

ProfilePaths == {"/org/example/colord/profiles/icc1",
                 "/org/example/colord/profiles/icc2"}

\* The frames the daemon sends: a name and its parameters.
Frames ==
    [signal_name : {"DeviceAdded", "DeviceRemoved"}, object_path : DevicePaths]
    \cup [signal_name : {"ProfileAdded", "ProfileRemoved"}, object_path : ProfilePaths]
    \cup [signal_name : {"Changed", "FooBar"}, object_path : {"NULL"}]

\* A slip: a name the callback does not know is taken for Changed.
SignalCbUnknownAsChanged(signal_name, parameters) ==
    IF signal_name \in PathSignals \/ signal_name = "Changed" THEN <<>>
    ELSE <<[signal |-> "Changed", object_path |-> "NULL"]>>

cd_client_dbus_signal_cb(signal_name, parameters) ==
    IF signal_name = "Changed" THEN <<>>                \* g_warning ("changed")
    ELSE IF signal_name = "DeviceAdded" THEN
        LET object_path_tmp == parameters IN <<>>       \* //EMIT
    ELSE IF signal_name = "DeviceRemoved" THEN
        LET object_path_tmp == parameters IN <<>>       \* //EMIT
    ELSE IF signal_name = "ProfileAdded" THEN
        LET object_path_tmp == parameters IN <<>>       \* //EMIT
    ELSE IF signal_name = "ProfileRemoved" THEN
        LET object_path_tmp == parameters IN <<>>       \* //EMIT
    ELSE <<>>                                           \* g_warning ("unhandled signal")

RECURSIVE RunHandlers(_, _)
RunHandlers(n, f) ==
    IF n = 0 THEN <<>>
    ELSE cd_client_dbus_signal_cb(f.signal_name, f.object_path)
             \o RunHandlers(n - 1, f)

\* A slip: the callback makes an object for the path of the frame and binds it.
SignalDeliveredResolvesPath(c, f) ==
    /\ clients[c].ref_count > 0
    /\ clients[c].proxy # NULL
    /\ proxies[clients[c].proxy].state = "live"
    /\ frame' = f
    /\ emitted' = RunHandlers(proxies[clients[c].proxy].handlers, f)
    /\ ret' = Returned("g-signal", c, "NULL", <<>>, NoError, 0)
    /\ heap' = IF f.signal_name \in PathSignals
               THEN <<[variant |-> "device", object_path |-> f.object_path,
                       bound |-> TRUE, ref_count |-> 1]>>
               ELSE <<>>
    /\ calls' = <<>>
    /\ binds' = IF f.signal_name \in PathSignals
                THEN <<[object_path |-> f.object_path, outcome |-> "reply"]>>
                ELSE <<>>
    /\ SingleThreaded
    /\ UNCHANGED objVars

\* The daemon sends frame f; the proxy of client c runs its "g-signal" handlers.
SignalDelivered(c, f) ==
    /\ clients[c].ref_count > 0
    /\ clients[c].proxy # NULL
    /\ proxies[clients[c].proxy].state = "live"
    /\ frame' = f
    /\ emitted' = RunHandlers(proxies[clients[c].proxy].handlers, f)
    /\ ret' = Returned("g-signal", c, "NULL", <<>>, NoError, 0)
    /\ NoCalls
    /\ SingleThreaded
    /\ UNCHANGED objVars

(***************************************************************************)
(* CdDevice and CdProfile objects.  cd_device_new and cd_profile_new give  *)
(* an object holding one reference and bound to no object path.            *)
(***************************************************************************)
NewObject(variant) ==
    [variant |-> variant, object_path |-> "NULL", bound |-> FALSE, ref_count |-> 1]

\* The error domain of each kind of object (CD_PROFILE_ERROR, cd-profile.h).
ObjectErrorDomain(variant) ==
    IF variant = "profile" THEN "CD_PROFILE_ERROR" ELSE "CD_DEVICE_ERROR"

ObjectErrorCode(variant) ==
    IF variant = "profile" THEN "CD_PROFILE_ERROR_FAILED" ELSE "CD_DEVICE_ERROR_FAILED"

\* cd_device_set_object_path_sync and cd_profile_set_object_path_sync: fetch the
\* properties of the remote object at object_path and bind the local object to
\* it.  `outcome` is how that fetch ends.
set_object_path_sync(object, object_path, outcome) ==
    IF outcome = "reply"
    THEN [ret |-> TRUE,
          object |-> [object EXCEPT !.object_path = object_path, !.bound = TRUE],
          error |-> NoError]
    ELSE [ret |-> FALSE,
          object |-> object,
          error |-> IF outcome = "cancelled" THEN TransportError(outcome)
                    ELSE [domain |-> ObjectErrorDomain(object.variant),
                          code |-> ObjectErrorCode(object.variant),
                          message |-> "Failed to connect to object"]]

\* One call of set_object_path_sync, as the log of binds keeps it.
Bind(object_path, outcome) == [object_path |-> object_path, outcome |-> outcome]

\* g_object_unref on the object at address i of the heap hp.
ObjectUnref(hp, i) == [hp EXCEPT ![i].ref_count = @ - 1]

RECURSIVE UnrefEach(_, _)
UnrefEach(hp, elems) ==
    IF elems = <<>> THEN hp
    ELSE UnrefEach(ObjectUnref(hp, Head(elems)), Tail(elems))

\* A slip: g_ptr_array_new (), an array that does not own its elements.
PtrArrayNewWithoutFreeFunc == [ref_count |-> 1, elems |-> <<>>, free_func |-> FALSE]

\* g_ptr_array_new_with_free_func ((GDestroyNotify) g_object_unref)
PtrArrayNew == [ref_count |-> 1, elems |-> <<>>, free_func |-> TRUE]

\* A slip: the object is put in front of the array.
PtrArrayInsertFirst(arr, object) == [arr EXCEPT !.elems = <<object>> \o @]

\* g_ptr_array_add (array_tmp, object)
g_ptr_array_add(arr, object) == [arr EXCEPT !.elems = Append(@, object)]

g_ptr_array_ref(arr) == [arr EXCEPT !.ref_count = @ + 1]

\* g_ptr_array_unref: the last reference frees the elements with the free
\* function the array was made with.  It yields the array and the heap.
g_ptr_array_unref(arr, hp) ==
    [arr |-> [arr EXCEPT !.ref_count = @ - 1],
     heap |-> IF arr.ref_count = 1 /\ arr.free_func
              THEN UnrefEach(hp, arr.elems) ELSE hp]

(***************************************************************************)
(* cd_client_get_device_array_from_variant and                             *)
(* cd_client_get_profile_array_from_variant: the same code for the two     *)
(* kinds of object.  `child` is the array of object paths of the reply,    *)
(* outcomes[i] how the bind of its i-th path ends.                         *)
(***************************************************************************)
\* A slip: the branch drops the object and sets no error.
BindFailedBranchSetsNoError(st, variant, object, b) ==
    [st EXCEPT !.heap = ObjectUnref(@, object),
               !.failed = TRUE]

\* The branch taken when the bind returned FALSE: set the error, drop the object.
BindFailedBranch(st, variant, object, b) ==
    [st EXCEPT !.error = ClientError(IF variant = "profile"
                                     THEN "Failed to set profile object path"
                                     ELSE "Failed to set device object path",
                                     b.error),
               !.error_sets = @ + 1,
               !.heap = ObjectUnref(@, object),
               !.failed = TRUE]

\* A slip: no goto out after a failed bind.
LoopNeverStops(st) == TRUE

\* Whether the loop goes on to index i + 1 after the bind at index i.
LoopContinues(st) == ~st.failed

RECURSIVE ArrayLoop(_, _, _, _, _)
ArrayLoop(variant, child, outcomes, i, st) ==
    IF i > Len(child) THEN st
    ELSE LET object == Len(st.heap) + 1
             hp == Append(st.heap, NewObject(variant))
             b == set_object_path_sync(hp[object], child[i], outcomes[i])
             tried == [st EXCEPT !.heap = [hp EXCEPT ![object] = b.object],
                                 !.binds = Append(@, Bind(child[i], outcomes[i]))]
             after == IF ~b.ret
                      THEN BindFailedBranch(tried, variant, object, b)
                      ELSE [tried EXCEPT !.array_tmp = g_ptr_array_add(@, object)]
         IN  IF LoopContinues(after)
             THEN ArrayLoop(variant, child, outcomes, i + 1, after)
             ELSE after

array_from_variant(variant, child, outcomes) ==
    LET start == [heap |-> <<>>, array_tmp |-> PtrArrayNew, binds |-> <<>>,
                  error |-> NoError, error_sets |-> 0, failed |-> FALSE]
        st == ArrayLoop(variant, child, outcomes, 1, start)
        \* success: array = g_ptr_array_ref (array_tmp)
        shared == IF st.failed THEN st.array_tmp ELSE g_ptr_array_ref(st.array_tmp)
        \* out: g_ptr_array_unref (array_tmp)
        out == g_ptr_array_unref(shared, st.heap)
    IN  [array |-> IF st.failed THEN "NULL" ELSE "ARRAY",
         elems |-> IF st.failed THEN <<>> ELSE out.arr.elems,
         array_ref_count |-> out.arr.ref_count,
         heap |-> out.heap,
         binds |-> st.binds,
         error |-> st.error,
         error_sets |-> st.error_sets]

cd_client_get_device_array_from_variant(child, outcomes) ==
    array_from_variant("device", child, outcomes)

cd_client_get_profile_array_from_variant(child, outcomes) ==
    array_from_variant("profile", child, outcomes)

(***************************************************************************)
(* Inputs of the calls: identifiers, options, device kinds, and what the   *)
(* daemon answers.                                                         *)
(***************************************************************************)
Ids == {"epson-9800", "icc-001"}

Options == {0, 1}

DeviceKinds == {"CD_DEVICE_KIND_DISPLAY", "CD_DEVICE_KIND_PRINTER"}

cd_device_kind_to_string(kind) ==
    IF kind = "CD_DEVICE_KIND_DISPLAY" THEN "display" ELSE "printer"

PathsOf(variant) == IF variant = "profile" THEN ProfilePaths ELSE DevicePaths

\* The arrays of object paths a reply may carry, the empty one included.
Replies(variant) == UNION {[1 .. n -> PathsOf(variant)] : n \in 0 .. MaxPaths}

\* How the binds of a reply of n paths end.  The code stops at the first bind
\* that fails, so the outcomes listed are those up to and including it.
BindOutcomes(n) ==
    {[i \in 1 .. n |-> "reply"]}
    \cup {[i \in 1 .. n |-> IF i = k THEN o ELSE "reply"] :
              k \in 1 .. n, o \in {"error", "cancelled"}}

\* One g_dbus_proxy_call_sync on the client's proxy, and the object paths of
\* how it ended, with the object paths of the reply when it got one.
ProxyCall(method, args, outcome, reply) ==
    <<[method |-> method, args |-> args, outcome |-> outcome, reply |-> reply]>>

\* g_return_val_if_fail (client->priv->proxy != NULL, ...)
CallPrecondition(c) == clients[c].proxy # NULL

\* What every call leaves alone.
CallFrame ==
    /\ NoSignal
    /\ SingleThreaded
    /\ UNCHANGED objVars

\* The return of a call whose precondition failed: the failure value, no error.
PreconditionFailed(op, c, value) ==
    /\ ret' = Returned(op, c, value, <<>>, NoError, 0)
    /\ NoCalls

\* The text each call puts before the message of the error it wraps.
FailedTo(method) ==
    CASE method = "GetDevices" -> "Failed to GetDevices"
      [] method = "GetDevicesByKind" -> "Failed to GetDevicesByKind"
      [] method = "GetProfiles" -> "Failed to GetProfiles"
      [] method = "CreateDevice" -> "Failed to CreateDevice"
      [] method = "CreateProfile" -> "Failed to CreateProfile"
      [] method = "DeleteDevice" -> "Failed to DeleteDevice"
      [] method = "DeleteProfile" -> "Failed to DeleteProfile"
      [] method = "FindDeviceById" -> "Failed to FindDeviceById"
      [] method = "FindProfileById" -> "Failed to FindProfileById"

\* A slip: the call is made once more when it failed.
CallFailedRetries(op, c, value, method, args, outcome) ==
    /\ ret' = Returned(op, c, value, <<>>,
                       ClientError(FailedTo(method), TransportError(outcome)), 1)
    /\ heap' = <<>>
    /\ calls' = ProxyCall(method, args, outcome, <<>>)
                    \o ProxyCall(method, args, outcome, <<>>)
    /\ binds' = <<>>

\* The branch taken when g_dbus_proxy_call_sync returned NULL.
CallFailed(op, c, value, method, args, outcome) ==
    /\ ret' = Returned(op, c, value, <<>>,
                       ClientError(FailedTo(method), TransportError(outcome)), 1)
    /\ heap' = <<>>
    /\ calls' = ProxyCall(method, args, outcome, <<>>)
    /\ binds' = <<>>

(***************************************************************************)
(* The calls that return an array of objects.                              *)
(***************************************************************************)
ListCall(op, c, method, args, child, m, outcome) ==
    /\ held[c] > 0
    /\ IF ~CallPrecondition(c) THEN PreconditionFailed(op, c, "NULL")
       ELSE IF outcome # "reply" THEN CallFailed(op, c, "NULL", method, args, outcome)
       ELSE /\ ret' = Returned(op, c, m.array, m.elems, m.error, m.error_sets)
            /\ heap' = m.heap
            /\ calls' = ProxyCall(method, args, outcome, child)
            /\ binds' = m.binds
    /\ CallFrame

cd_client_get_devices_sync(c, outcome, child, outcomes) ==
    ListCall("get_devices", c, "GetDevices", <<>>, child,
             cd_client_get_device_array_from_variant(child, outcomes), outcome)

cd_client_get_devices_by_kind_sync(c, kind, outcome, child, outcomes) ==
    ListCall("get_devices_by_kind", c, "GetDevicesByKind",
             <<cd_device_kind_to_string(kind)>>, child,
             cd_client_get_device_array_from_variant(child, outcomes), outcome)

cd_client_get_profiles_sync(c, outcome, child, outcomes) ==
    ListCall("get_profiles", c, "GetProfiles", <<>>, child,
             cd_client_get_profile_array_from_variant(child, outcomes), outcome)

(***************************************************************************)
(* The calls that return one object: create and find.  The reply carries   *)
(* one object path; the error of a failed bind is handed on as it is.      *)
(***************************************************************************)
\* A slip: the return value of the bind is not looked at.
ObjectFromReplyIgnoresBind(variant, object_path, bind) ==
    LET object_tmp == 1
        hp == <<NewObject(variant)>>
        b == set_object_path_sync(hp[object_tmp], object_path, bind)
        bound == [hp EXCEPT ![object_tmp] = b.object]
        kept == [bound EXCEPT ![object_tmp].ref_count = @ + 1]
    IN  [object |-> <<object_tmp>>,
         value |-> "OBJECT",
         heap |-> ObjectUnref(kept, object_tmp),
         binds |-> <<Bind(object_path, bind)>>,
         error |-> b.error,
         error_sets |-> IF b.ret THEN 0 ELSE 1]

ObjectFromReply(variant, object_path, bind) ==
    LET object_tmp == 1
        hp == <<NewObject(variant)>>
        b == set_object_path_sync(hp[object_tmp], object_path, bind)
        bound == [hp EXCEPT ![object_tmp] = b.object]
        \* success: object = g_object_ref (object_tmp)
        kept == IF b.ret THEN [bound EXCEPT ![object_tmp].ref_count = @ + 1]
                         ELSE bound
    IN  [object |-> IF b.ret THEN <<object_tmp>> ELSE <<>>,
         value |-> IF b.ret THEN "OBJECT" ELSE "NULL",
         \* out: g_object_unref (object_tmp)
         heap |-> ObjectUnref(kept, object_tmp),
         binds |-> <<Bind(object_path, bind)>>,
         error |-> b.error,
         error_sets |-> IF b.ret THEN 0 ELSE 1]

\* A slip: when the bind failed, the object is deleted on the daemon as well.
ObjectCallDeletesOnBindFailure(op, c, method, args, variant, outcome, object_path, bind) ==
    /\ held[c] > 0
    /\ IF ~CallPrecondition(c) THEN PreconditionFailed(op, c, "NULL")
       ELSE IF outcome # "reply" THEN CallFailed(op, c, "NULL", method, args, outcome)
       ELSE LET m == ObjectFromReply(variant, object_path, bind)
            IN  /\ ret' = Returned(op, c, m.value, m.object, m.error, m.error_sets)
                /\ heap' = m.heap
                /\ calls' = ProxyCall(method, args, outcome, <<object_path>>)
                                \o (IF m.value = "NULL"
                                    THEN ProxyCall(IF variant = "profile"
                                                   THEN "DeleteProfile"
                                                   ELSE "DeleteDevice",
                                                   <<args[1]>>, "reply", <<>>)
                                    ELSE <<>>)
                /\ binds' = m.binds
    /\ CallFrame

ObjectCall(op, c, method, args, variant, outcome, object_path, bind) ==
    /\ held[c] > 0
    /\ IF ~CallPrecondition(c) THEN PreconditionFailed(op, c, "NULL")
       ELSE IF outcome # "reply" THEN CallFailed(op, c, "NULL", method, args, outcome)
       ELSE LET m == ObjectFromReply(variant, object_path, bind)
            IN  /\ ret' = Returned(op, c, m.value, m.object, m.error, m.error_sets)
                /\ heap' = m.heap
                /\ calls' = ProxyCall(method, args, outcome, <<object_path>>)
                /\ binds' = m.binds
    /\ CallFrame

cd_client_create_device_sync(c, id, options, outcome, object_path, bind) ==
    ObjectCall("create_device", c, "CreateDevice", <<id, options>>, "device",
               outcome, object_path, bind)

cd_client_create_profile_sync(c, id, options, outcome, object_path, bind) ==
    ObjectCall("create_profile", c, "CreateProfile", <<id, options>>, "profile",
               outcome, object_path, bind)

cd_client_find_device_sync(c, id, outcome, object_path, bind) ==
    ObjectCall("find_device", c, "FindDeviceById", <<id>>, "device",
               outcome, object_path, bind)

cd_client_find_profile_sync(c, id, outcome, object_path, bind) ==
    ObjectCall("find_profile", c, "FindProfileById", <<id>>, "profile",
               outcome, object_path, bind)

(***************************************************************************)
(* The calls that return TRUE or FALSE: delete.                            *)
(***************************************************************************)
cd_client_delete_device_sync(c, id, outcome) ==
    /\ held[c] > 0
    /\ IF ~CallPrecondition(c) THEN PreconditionFailed("delete_device", c, "FALSE")
       ELSE IF outcome # "reply"
       THEN CallFailed("delete_device", c, "FALSE", "DeleteDevice", <<id>>, outcome)
       ELSE /\ ret' = Returned("delete_device", c, "TRUE", <<>>, NoError, 0)
            /\ heap' = <<>>
            /\ calls' = ProxyCall("DeleteDevice", <<id>>, outcome, <<>>)
            /\ binds' = <<>>
    /\ CallFrame

\* A slip: the error branch gives up the proxy.
DeleteProfileDropsProxy(c, id, outcome) ==
    /\ held[c] > 0
    /\ IF ~CallPrecondition(c)
       THEN /\ PreconditionFailed("delete_profile", c, "FALSE")
            /\ UNCHANGED objVars
       ELSE IF outcome # "reply"
       THEN /\ CallFailed("delete_profile", c, "FALSE", "DeleteProfile", <<id>>, outcome)
            /\ proxies' = ProxyUnref(proxies, clients[c].proxy)
            /\ clients' = [clients EXCEPT ![c].proxy = NULL]
            /\ UNCHANGED <<cd_client_object, held>>
       ELSE /\ ret' = Returned("delete_profile", c, "TRUE", <<>>, NoError, 0)
            /\ heap' = <<>>
            /\ calls' = ProxyCall("DeleteProfile", <<id>>, outcome, <<>>)
            /\ binds' = <<>>
            /\ UNCHANGED objVars
    /\ NoSignal
    /\ SingleThreaded

cd_client_delete_profile_sync(c, id, outcome) ==
    /\ held[c] > 0
    /\ IF ~CallPrecondition(c) THEN PreconditionFailed("delete_profile", c, "FALSE")
       ELSE IF outcome # "reply"
       THEN CallFailed("delete_profile", c, "FALSE", "DeleteProfile", <<id>>, outcome)
       ELSE /\ ret' = Returned("delete_profile", c, "TRUE", <<>>, NoError, 0)
            /\ heap' = <<>>
            /\ calls' = ProxyCall("DeleteProfile", <<id>>, outcome, <<>>)
            /\ binds' = <<>>
    /\ CallFrame

(***************************************************************************)
(* The daemon changes its "Title" property.  Nothing in the client reads   *)
(* the property after cd_client_connect_sync.                              *)
(***************************************************************************)
PropertiesChanged(t) ==
    /\ t # Title
    /\ Title' = t
    /\ ret' = Returned("PropertiesChanged", NULL, "NULL", <<>>, NoError, 0)
    /\ NoCalls
    /\ NoSignal
    /\ UNCHANGED <<objVars, threads>>

(***************************************************************************)
(* The callers and the daemon.  A caller calls on a reference it holds.    *)
(* The inputs a call never reads (the reply of a call that is not made or  *)
(* that fails) are not enumerated.                                         *)
(***************************************************************************)
Holders == {c \in Instances : held[c] > 0}

Answered(c, o) == CallPrecondition(c) /\ o = "reply"

RepliesTo(c, o, variant) ==
    IF Answered(c, o) THEN Replies(variant) ELSE {<<>>}

PathsTo(c, o, variant) ==
    IF Answered(c, o) THEN PathsOf(variant)
    ELSE {CHOOSE p \in PathsOf(variant) : TRUE}

BindsTo(c, o) == IF Answered(c, o) THEN CallOutcomes ELSE {"reply"}

OutcomesOn(c) == IF CallPrecondition(c) THEN CallOutcomes ELSE {"reply"}

Next ==
    \/ cd_client_new
    \/ \E c \in Instances : g_object_unref(c)
    \/ \E c \in Holders, o \in CallOutcomes :
           cd_client_connect_sync(c, o, Title)
    \/ \E c \in Holders : cd_client_get_daemon_version(c)
    \/ \E c \in Holders : \E o \in OutcomesOn(c) :
           \E child \in RepliesTo(c, o, "device") :
               \E outcomes \in BindOutcomes(Len(child)) :
                   cd_client_get_devices_sync(c, o, child, outcomes)
    \/ \E c \in Holders, k \in DeviceKinds : \E o \in OutcomesOn(c) :
           \E child \in RepliesTo(c, o, "device") :
               \E outcomes \in BindOutcomes(Len(child)) :
                   cd_client_get_devices_by_kind_sync(c, k, o, child, outcomes)
    \/ \E c \in Holders : \E o \in OutcomesOn(c) :
           \E child \in RepliesTo(c, o, "profile") :
               \E outcomes \in BindOutcomes(Len(child)) :
                   cd_client_get_profiles_sync(c, o, child, outcomes)
    \/ \E c \in Holders, id \in Ids, opt \in Options : \E o \in OutcomesOn(c) :
           \E path \in PathsTo(c, o, "device"), b \in BindsTo(c, o) :
               cd_client_create_device_sync(c, id, opt, o, path, b)
    \/ \E c \in Holders, id \in Ids, opt \in Options : \E o \in OutcomesOn(c) :
           \E path \in PathsTo(c, o, "profile"), b \in BindsTo(c, o) :
               cd_client_create_profile_sync(c, id, opt, o, path, b)
    \/ \E c \in Holders, id \in Ids : \E o \in OutcomesOn(c) :
           \E path \in PathsTo(c, o, "device"), b \in BindsTo(c, o) :
               cd_client_find_device_sync(c, id, o, path, b)
    \/ \E c \in Holders, id \in Ids : \E o \in OutcomesOn(c) :
           \E path \in PathsTo(c, o, "profile"), b \in BindsTo(c, o) :
               cd_client_find_profile_sync(c, id, o, path, b)
    \/ \E c \in Holders, id \in Ids : \E o \in OutcomesOn(c) :
           cd_client_delete_device_sync(c, id, o)
    \/ \E c \in Holders, id \in Ids : \E o \in OutcomesOn(c) :
           cd_client_delete_profile_sync(c, id, o)
    \/ \E c \in Holders, f \in Frames : SignalDelivered(c, f)
    \/ \E t \in Titles : PropertiesChanged(t)

Spec == Init /\ [][Next]_vars

(***************************************************************************)
(* Several threads.  The file has no lock and no atomic access of its own: *)
(* cd_client_new and cd_client_connect_sync test a shared location and     *)
(* write it later, and another thread may run in between.  Each is cut     *)
(* into the test and what follows it.  threads[t].client is the value the  *)
(* thread's test read (cd_client_new) or its client argument (connect).    *)
(* g_object_ref and g_object_unref are atomic in GLib.                     *)
(***************************************************************************)
InCall(t, pc, c) == threads' = [threads EXCEPT ![t] = [pc |-> pc, client |-> c]]

Leaves(t) == threads' = [threads EXCEPT ![t] = IdleThread]

\* if (cd_client_object != NULL)
cd_client_new_test(t) ==
    /\ threads[t].pc = "idle"
    /\ InCall(t, IF cd_client_object # NULL THEN "new_ref" ELSE "new_construct",
              cd_client_object)
    /\ UNCHANGED <<objVars, callVars, signalVars, Title>>

\* The values a second, unsynchronised read of cd_client_object can give: the
\* one the test read, kept in a register, or the one in memory now.
Reread(t) == {threads[t].client, cd_client_object}

\* g_object_ref (cd_client_object); return CD_CLIENT (cd_client_object);
\* g_object_ref (NULL) fails its check and gives NULL; a reference taken on
\* freed memory gives the caller the address of an object that is gone.
cd_client_new_ref(t) ==
    /\ threads[t].pc = "new_ref"
    /\ \E object \in Reread(t) :
           IF object = NULL
           THEN /\ ret' = Returned("new", NULL, "NULL", <<>>, NoError, 0)
                /\ UNCHANGED <<clients, held>>
           ELSE IF clients[object].allocated
           THEN /\ clients[object].ref_count < MaxRefs
                /\ clients' = [clients EXCEPT ![object].ref_count = @ + 1]
                /\ held' = [held EXCEPT ![object] = @ + 1]
                /\ ret' = Returned("new", object, "OBJECT", <<>>, NoError, 0)
           ELSE /\ ret' = Returned("new", object, "OBJECT", <<>>, NoError, 0)
                /\ UNCHANGED <<clients, held>>
    /\ Leaves(t)
    /\ NoCalls
    /\ NoSignal
    /\ UNCHANGED <<cd_client_object, proxies, Title>>

\* cd_client_object = g_object_new (CD_TYPE_CLIENT, NULL);
\* g_object_add_weak_pointer (cd_client_object, &cd_client_object);
cd_client_new_construct(t) ==
    /\ threads[t].pc = "new_construct"
    /\ FreshInstance # NULL
    /\ clients' = [clients EXCEPT ![FreshInstance] = cd_client_init]
    /\ cd_client_object' = FreshInstance
    /\ held' = [held EXCEPT ![FreshInstance] = @ + 1]
    /\ ret' = Returned("new", FreshInstance, "OBJECT", <<>>, NoError, 0)
    /\ Leaves(t)
    /\ NoCalls
    /\ NoSignal
    /\ UNCHANGED <<proxies, Title>>

\* A thread drops a reference to c; no thread is inside a call made on c
\* (a caller keeps its reference for as long as its call lasts).
ThreadUnref(c) ==
    /\ \A t \in Threads : threads[t].pc = "connect_proxy" => threads[t].client # c
    /\ g_object_unref(c)

\* g_return_val_if_fail (client->priv->proxy == NULL, FALSE)
cd_client_connect_sync_test(t, c) ==
    /\ threads[t].pc = "idle"
    /\ held[c] > 0
    /\ IF ConnectPrecondition(c)
       THEN /\ InCall(t, "connect_proxy", c)
            /\ UNCHANGED <<callVars, signalVars>>
       ELSE /\ ret' = Returned("connect", c, "FALSE", <<>>, NoError, 0)
            /\ NoCalls
            /\ NoSignal
            /\ UNCHANGED threads
    /\ UNCHANGED <<objVars, Title>>

\* client->priv->proxy = g_dbus_proxy_new_for_bus_sync (...) and the rest of
\* the function: whatever the field held is written over.
cd_client_connect_sync_proxy(t, outcome) ==
    /\ threads[t].pc = "connect_proxy"
    /\ LET c == threads[t].client
       IN  IF outcome = "reply"
           THEN /\ FreshProxy # NULL
                /\ proxies' = [proxies EXCEPT ![FreshProxy] = NewProxy]
                /\ clients' = [clients EXCEPT
                                   ![c].proxy = FreshProxy,
                                   ![c].daemon_version = CachedVersion(c, Title)]
                /\ ret' = Returned("connect", c, "TRUE", <<>>, NoError, 0)
           ELSE /\ clients' = [clients EXCEPT ![c].proxy = NULL]
                /\ ret' = Returned("connect", c, "FALSE", <<>>,
                                   ClientError("Failed to connect to colord",
                                               TransportError(outcome)), 1)
                /\ UNCHANGED proxies
    /\ Leaves(t)
    /\ NoCalls
    /\ NoSignal
    /\ UNCHANGED <<cd_client_object, held, Title>>

NextThreads ==
    \/ \E t \in Threads : cd_client_new_test(t)
    \/ \E t \in Threads : cd_client_new_ref(t)
    \/ \E t \in Threads : cd_client_new_construct(t)
    \/ \E c \in Instances : ThreadUnref(c)
    \/ \E t \in Threads, c \in Holders : cd_client_connect_sync_test(t, c)
    \/ \E t \in Threads, o \in CallOutcomes : cd_client_connect_sync_proxy(t, o)

SpecThreads == Init /\ [][NextThreads]_vars
(***************************************************************************)
(* Properties.                                                             *)
(***************************************************************************)
ListOps == {"get_devices", "get_devices_by_kind", "get_profiles"}

ObjectOps == {"create_device", "create_profile", "find_device", "find_profile"}

DeleteOps == {"delete_device", "delete_profile"}

RemoteOps == ListOps \cup ObjectOps \cup DeleteOps

\* The objects of the last call the caller got: the elements of ret.result.
Observable == {ret.result[i] : i \in 1 .. Len(ret.result)}

\* The objects of the last call that are still allocated.
Allocated == {i \in 1 .. Len(heap) : heap[i].ref_count > 0}

\* The last call was a list call in which a bind failed.
BulkBindFailed ==
    /\ ret.op \in ListOps
    /\ \E i \in 1 .. Len(heap) : ~heap[i].bound

\* C1: when the bind of an element of a bulk list fails, the list call returns
\* no list and one error, and every object made in that pass -- those already
\* bound and the one whose bind failed -- has been released: none is left
\* allocated and none is handed to the caller.
C1_BulkFailureReleasesAll ==
    BulkBindFailed =>
        /\ ret.value = "NULL"
        /\ ret.result = <<>>
        /\ ret.error # NoError
        /\ ret.error_sets = 1
        /\ Allocated = {}
        /\ Observable = {}

\* A reply of two paths whose second bind failed after the first succeeded.
C1_Witness ==
    /\ ret.op \in ListOps
    /\ Len(calls) = 1
    /\ Len(calls[1].reply) = 2
    /\ Len(heap) = 2
    /\ heap[1].bound
    /\ ~heap[2].bound
    /\ ret.value = "NULL"

\* The last call was a list call that returned an array.
ListSucceeded ==
    /\ ret.op \in ListOps
    /\ ret.value = "ARRAY"

\* The last call was a list call whose D-Bus call was answered with a reply
\* all of whose object paths could be bound.
ListAnswered ==
    /\ ret.op \in ListOps
    /\ Len(calls) = 1
    /\ calls[1].outcome = "reply"
    /\ \A i \in 1 .. Len(heap) : heap[i].bound

\* C2: a list call that succeeds on a reply of N object paths returns exactly
\* N objects, the i-th one bound to the i-th path of the reply (the order of
\* the reply, no path dropped or merged), each owned by the caller alone; a
\* reply of no paths gives an empty array and not a failure.
C2_ListMatchesReply ==
    /\ ListSucceeded =>
        /\ Len(calls) = 1
        /\ Len(ret.result) = Len(calls[1].reply)
        /\ \A i \in 1 .. Len(ret.result) :
               /\ ret.result[i] \in 1 .. Len(heap)
               /\ heap[ret.result[i]].bound
               /\ heap[ret.result[i]].object_path = calls[1].reply[i]
               /\ heap[ret.result[i]].ref_count = 1
        /\ \A i, j \in 1 .. Len(ret.result) : i # j => ret.result[i] # ret.result[j]
        /\ ret.error = NoError
    /\ ListAnswered => ListSucceeded

\* A list of two objects bound to two different paths, in the reply's order.
C2_Witness ==
    /\ ListSucceeded
    /\ Len(ret.result) = 2
    /\ calls[1].reply[1] # calls[1].reply[2]
    /\ heap[ret.result[1]].object_path = calls[1].reply[1]

\* An empty reply that gave an empty array.
C2_WitnessEmpty ==
    /\ ListSucceeded
    /\ Len(calls) = 1
    /\ calls[1].reply = <<>>
    /\ ret.result = <<>>
(***************************************************************************)
(* The error kinds of the specification, in terms of the GError the code   *)
(* hands to its caller.  The client has one error code of its own,         *)
(* CD_CLIENT_ERROR_FAILED; what tells its failures apart is the message.   *)
(***************************************************************************)
\* An error of the client's own domain was set, once.
ClientErrorReported(r) ==
    /\ r.error_sets = 1
    /\ r.error.domain = "CD_CLIENT_ERROR"
    /\ r.error.code = "CD_CLIENT_ERROR_FAILED"

\* RequestFailed: the client's error naming the D-Bus method that failed.
RequestFailed(r, method) ==
    /\ ClientErrorReported(r)
    /\ r.error.message[1] = FailedTo(method)

\* What a call returns when it fails.
FailureValue(op) == IF op \in DeleteOps THEN "FALSE" ELSE "NULL"

\* The calls that need a connected client: all but connect.
ConnectedOps == RemoteOps \cup {"daemon_version"}

\* C3: any operation other than connect, called on a client that has not been
\* connected, fails with the NotConnected error and attempts no remote call.
\* (The code returns the failure value and sets no error at all.)
C3_NotConnectedReported ==
    (ret.op \in ConnectedOps /\ clients[ret.client].proxy = NULL) =>
        /\ ret.value = FailureValue(ret.op)
        /\ ClientErrorReported(ret)
        /\ calls = <<>>
        /\ binds = <<>>

\* What does hold of a call on an unconnected client: the failure value, no
\* remote call, no bind, nothing allocated.
C3_FailsWithoutCall ==
    (ret.op \in ConnectedOps /\ clients[ret.client].proxy = NULL) =>
        /\ ret.value = FailureValue(ret.op)
        /\ calls = <<>>
        /\ binds = <<>>
        /\ heap = <<>>

\* C4: connect on a client that is already connected fails with the
\* AlreadyConnected error, and the transport, the cached version and the
\* signal subscription stay as the first connect left them.
\* (The code returns FALSE and sets no error at all.)
C4_AlreadyConnectedReported ==
    [][\A c \in Instances :
          (clients[c].proxy # NULL /\ ret'.op = "connect" /\ ret'.client = c) =>
              /\ ret'.value = "FALSE"
              /\ ret'.error_sets = 1
              /\ ret'.error.domain = "CD_CLIENT_ERROR"
              /\ clients' = clients
              /\ proxies' = proxies]_vars

\* What does hold of a second connect: FALSE, and the client, its proxy and
\* the proxy's one signal handler untouched.
C4_SecondConnectChangesNothing ==
    [][\A c \in Instances :
          (clients[c].proxy # NULL /\ ret'.op = "connect" /\ ret'.client = c) =>
              /\ ret'.value = "FALSE"
              /\ clients' = clients
              /\ proxies' = proxies
              /\ proxies'[clients'[c].proxy].handlers = 1]_vars

C6_ReleasedOnceByLastUnref ==
    /\ \A c \in Instances :
           /\ clients[c].allocated => /\ clients[c].ref_count > 0
                                      /\ clients[c].finalized = 0
           /\ ~clients[c].allocated => /\ clients[c].ref_count = 0
                                       /\ clients[c].finalized <= 1
                                       /\ cd_client_object # c
           /\ (clients[c].allocated /\ clients[c].proxy # NULL) =>
                  proxies[clients[c].proxy].state = "live"
    /\ \A p \in Proxies :
           /\ proxies[p].unrefs <= 1
           /\ proxies[p].state = "live" =>
                  /\ proxies[p].unrefs = 0
                  /\ Cardinality({c \in Instances : /\ clients[c].allocated
                                                    /\ clients[c].proxy = p}) = 1
           /\ proxies[p].state = "freed" => proxies[p].unrefs = 1
    /\ (ret.op = "unref" /\ clients[ret.client].ref_count = 0) =>
           /\ cd_client_object = NULL
           /\ clients[ret.client].finalized = 1
    /\ (ret.op = "new" /\ held[ret.client] = 1) =>
           /\ clients[ret.client].proxy = NULL
           /\ clients[ret.client].daemon_version = "NULL"

\* A fresh, unconnected instance made after a connected one was torn down.
C6_Witness ==
    /\ ret.op = "new"
    /\ held[ret.client] = 1
    /\ clients[ret.client].proxy = NULL
    /\ \E p \in Proxies : proxies[p].state = "freed" /\ proxies[p].unrefs = 1

\* The GObject signal of the client that stands for a frame of the daemon.
EventOf(f) == [signal |-> f.signal_name, object_path |-> f.object_path]

\* C7: a frame DeviceAdded, DeviceRemoved, ProfileAdded or ProfileRemoved with
\* object path p makes the client emit exactly one event of that tag with p.
\* (The callback extracts the path and emits nothing.)
C7_PathSignalEmitted ==
    (ret.op = "g-signal" /\ frame.signal_name \in PathSignals) =>
        emitted = <<EventOf(frame)>>

\* C8: a frame Changed makes the client emit a Changed event.
\* (The callback logs a warning and emits nothing.)
C8_ChangedEmitted ==
    (ret.op = "g-signal" /\ frame.signal_name = "Changed") =>
        emitted = <<[signal |-> "Changed", object_path |-> "NULL"]>>

KnownSignals == {"Changed"} \cup PathSignals

\* C9: a frame of any other name makes the client emit nothing and is no
\* error: the callback reports nothing, calls nothing, and leaves the client,
\* its proxy and the references as they were, so what follows is processed as
\* if the frame had not arrived.
C9_UnknownSignalIgnored ==
    [][(ret'.op = "g-signal" /\ frame'.signal_name \notin KnownSignals) =>
           /\ emitted' = <<>>
           /\ ret'.error = NoError
           /\ calls' = <<>>
           /\ heap' = <<>>
           /\ UNCHANGED objVars]_vars

\* A frame FooBar was handled on a connected client.
C9_Witness ==
    /\ ret.op = "g-signal"
    /\ frame.signal_name = "FooBar"
    /\ emitted = <<>>
    /\ clients[ret.client].proxy # NULL

\* The last call was a remote call the daemon answered with an error reply.
RemoteError(r, cs) ==
    /\ r.op \in RemoteOps
    /\ Len(cs) = 1
    /\ cs[1].outcome = "error"

\* C10: a remote call answered with an error reply makes the operation fail
\* with RequestFailed and leaves the client connected: the client, its proxy
\* and its cached version are unchanged, and the next operation on that
\* client is again sent to the daemon.
C10_RemoteErrorLeavesConnected ==
    [][/\ RemoteError(ret', calls') =>
              /\ ret'.value = FailureValue(ret'.op)
              /\ ret'.result = <<>>
              /\ RequestFailed(ret', calls'[1].method)
              /\ UNCHANGED objVars
              /\ clients'[ret'.client].proxy # NULL
              /\ proxies'[clients'[ret'.client].proxy].state = "live"
       /\ (RemoteError(ret, calls) /\ ret'.op \in RemoteOps
               /\ ret'.client = ret.client) =>
              Len(calls') = 1]_vars

\* delete_profile ("icc-001") answered with an error reply, on a client that
\* is still connected afterwards.
C10_Witness ==
    /\ ret.op = "delete_profile"
    /\ RemoteError(ret, calls)
    /\ calls[1].method = "DeleteProfile"
    /\ calls[1].args = <<"icc-001">>
    /\ ret.value = "FALSE"
    /\ clients[ret.client].proxy # NULL
    /\ proxies[clients[ret.client].proxy].state = "live"

\* The client at address c is connected.
Connected(c) == clients[c].allocated /\ clients[c].proxy # NULL

\* C11: cd_client_get_daemon_version returns the string cached by the connect
\* and calls nothing: a successful connect caches the property as the bus
\* served it then, the call returns the cached string, and no step that
\* leaves a connected instance alive -- a call, a signal, a change of the
\* daemon's property -- changes that string.
C11_VersionCachedAtConnect ==
    [][/\ \A c \in Instances :
              (Connected(c) /\ clients'[c].allocated) =>
                  clients'[c].daemon_version = clients[c].daemon_version
       /\ (ret'.op = "connect" /\ ret'.value = "TRUE") =>
              clients'[ret'.client].daemon_version = Title
       /\ ret'.op = "daemon_version" =>
              /\ ret'.value = clients[ret'.client].daemon_version
              /\ calls' = <<>>
              /\ binds' = <<>>
              /\ UNCHANGED objVars]_vars

\* The version asked of a connected client after the daemon's property changed:
\* the string cached by the connect, not what the bus serves now.
C11_Witness ==
    /\ ret.op = "daemon_version"
    /\ Connected(ret.client)
    /\ ret.value = "0.1.0"
    /\ Title # "0.1.0"

\* The last call was a create or a find whose D-Bus call got a reply.
ObjectAnswered ==
    /\ ret.op \in ObjectOps
    /\ Len(calls) = 1
    /\ calls[1].outcome = "reply"

\* C12: create_device, create_profile, find_device and find_profile return no
\* unbound object.  When the reply's path could be bound they return exactly
\* one object, bound to that path and owned by the caller alone; when the bind
\* failed they return NULL with an error, and the object made for the bind has
\* been released.
C12_NoUnboundObjectReturned ==
    /\ ret.op \in ObjectOps =>
           /\ \A i \in Observable : i \in 1 .. Len(heap) /\ heap[i].bound
           /\ ret.value = "OBJECT" <=> Len(ret.result) = 1
           /\ ret.value \in {"OBJECT", "NULL"}
    /\ ObjectAnswered =>
           /\ Len(heap) = 1
           /\ Len(binds) = 1
           /\ binds[1].object_path = calls[1].reply[1]
           /\ IF binds[1].outcome = "reply"
              THEN /\ ret.value = "OBJECT"
                   /\ ret.result = <<1>>
                   /\ heap[1].bound
                   /\ heap[1].object_path = calls[1].reply[1]
                   /\ heap[1].ref_count = 1
                   /\ ret.error = NoError
              ELSE /\ ret.value = "NULL"
                   /\ ret.result = <<>>
                   /\ ~heap[1].bound
                   /\ heap[1].ref_count = 0
                   /\ ret.error # NoError
                   /\ ret.error_sets = 1

\* A find whose reply came and whose bind failed: NULL, the object released.
C12_Witness ==
    /\ ObjectAnswered
    /\ ret.op = "find_profile"
    /\ binds[1].outcome = "error"
    /\ ret.value = "NULL"
    /\ heap[1].ref_count = 0

\* create_device ("epson-9800", 0) returning a device bound to the reply's path.
C12_WitnessBound ==
    /\ ObjectAnswered
    /\ ret.op = "create_device"
    /\ calls[1].args = <<"epson-9800", 0>>
    /\ ret.result = <<1>>
    /\ heap[1].object_path = calls[1].reply[1]

\* The last call was one that returns objects and its last bind failed.
BindFailed ==
    /\ ret.op \in ListOps \cup ObjectOps
    /\ binds # <<>>
    /\ binds[Len(binds)].outcome # "reply"

\* The text the array extraction puts before the message of a failed bind.
FailedToSet(op) ==
    IF op \in {"get_profiles", "create_profile", "find_profile"}
    THEN "Failed to set profile object path"
    ELSE "Failed to set device object path"

\* C13: a failure of a call that returns objects, when a bind caused it, is
\* reported as one error of the client itself (CD_CLIENT_ERROR) whose message
\* wraps the message of the bind -- for create and find as for the list
\* calls.  (create and find hand the error of the bind on as it is.)
C13_BindFailureIsRequestFailed ==
    BindFailed =>
        /\ ClientErrorReported(ret)
        /\ ret.error.message[1] = FailedToSet(ret.op)
        /\ ret.error.message[2] \in {"Failed to connect to object",
                                     "Operation was cancelled"}

\* What does hold: the list calls wrap the error of the bind in an error of
\* the client, and every call whose bind failed reports exactly one error.
C13_BulkBindFailureWrapped ==
    BindFailed =>
        /\ ret.error_sets = 1
        /\ ret.error # NoError
        /\ ret.op \in ListOps =>
               /\ ClientErrorReported(ret)
               /\ ret.error.message[1] = FailedToSet(ret.op)
               /\ ret.error.message[2] \in {"Failed to connect to object",
                                            "Operation was cancelled"}

\* The cancellable fired while the last call was blocked in its D-Bus call, or
\* in a bind.
CallCancelled ==
    /\ ret.op \in RemoteOps
    /\ Len(calls) = 1
    /\ calls[1].outcome = "cancelled"

BindCancelled ==
    /\ ret.op \in ListOps \cup ObjectOps
    /\ binds # <<>>
    /\ binds[Len(binds)].outcome = "cancelled"

\* The kind of an error, by which a caller matches it: domain and code.
ErrorKind(error) == <<error.domain, error.code>>

\* The kind of the error a call reports when the daemon answers with an error.
RemoteErrorKind == <<"CD_CLIENT_ERROR", "CD_CLIENT_ERROR_FAILED">>

\* C14: when the cancellable fires while a call is blocked, in the D-Bus call
\* or in a bind, the call returns a failure of a kind of its own, which the
\* caller can tell from the failure of a remote error, returns no object and
\* no array, and leaves no object of the pass allocated.
\* (The code reports the cancellation with the domain and the code of a
\* remote error.)
C14_CancelledToldApart ==
    (CallCancelled \/ BindCancelled) =>
        /\ ret.value = FailureValue(ret.op)
        /\ ret.result = <<>>
        /\ Allocated = {}
        /\ ret.error_sets = 1
        /\ ErrorKind(ret.error) # RemoteErrorKind

\* What does hold of a cancelled call: the failure value with one error, no
\* object returned, none left allocated.
C14_CancelledReturnsNothing ==
    (CallCancelled \/ BindCancelled) =>
        /\ ret.value = FailureValue(ret.op)
        /\ ret.result = <<>>
        /\ Allocated = {}
        /\ ret.error_sets = 1
        /\ ret.error # NoError

\* The method of the daemon's interface each operation stands for.
MethodOf(op) ==
    CASE op = "get_devices" -> "GetDevices"
      [] op = "get_devices_by_kind" -> "GetDevicesByKind"
      [] op = "get_profiles" -> "GetProfiles"
      [] op = "create_device" -> "CreateDevice"
      [] op = "create_profile" -> "CreateProfile"
      [] op = "delete_device" -> "DeleteDevice"
      [] op = "delete_profile" -> "DeleteProfile"
      [] op = "find_device" -> "FindDeviceById"
      [] op = "find_profile" -> "FindProfileById"

\* The requests the interface table allows for a method.
RequestsOf(method) ==
    CASE method \in {"GetDevices", "GetProfiles"} -> {<<>>}
      [] method = "GetDevicesByKind" -> {<<"display">>, <<"printer">>}
      [] method \in {"CreateDevice", "CreateProfile"} ->
             {<<id, options>> : id \in Ids, options \in Options}
      [] OTHER -> {<<id>> : id \in Ids}

\* C15: no retries.  One call of a remote operation on a connected client
\* makes exactly one D-Bus call, of the method the interface table names for
\* the operation and with its request; when that call fails nothing is bound
\* and the failure is returned, and when a bind fails it is the last remote
\* access of the operation.
C15_OneCallNoRetry ==
    (ret.op \in RemoteOps /\ clients[ret.client].proxy # NULL) =>
        /\ Len(calls) = 1
        /\ calls[1].method = MethodOf(ret.op)
        /\ calls[1].args \in RequestsOf(calls[1].method)
        /\ calls[1].outcome # "reply" =>
               /\ binds = <<>>
               /\ ret.value = FailureValue(ret.op)
               /\ ret.error_sets = 1
        /\ \A i \in 1 .. Len(binds) - 1 : binds[i].outcome = "reply"
        /\ BindFailed =>
               /\ ret.value = FailureValue(ret.op)
               /\ ret.error_sets = 1

\* find_device answered with an error: one FindDeviceById, nothing after it.
C15_Witness ==
    /\ ret.op = "find_device"
    /\ Len(calls) = 1
    /\ calls[1].method = "FindDeviceById"
    /\ calls[1].outcome = "error"
    /\ binds = <<>>
    /\ ret.value = "NULL"

\* get_devices_by_kind whose second bind failed: one call, two binds.
C15_WitnessBind ==
    /\ ret.op = "get_devices_by_kind"
    /\ Len(calls) = 1
    /\ calls[1].method = "GetDevicesByKind"
    /\ Len(binds) = 2
    /\ binds[2].outcome = "error"

\* C19: the array extraction binds the paths of the reply one at a time in the
\* order of the reply, starting at the first, and binds nothing after the
\* first bind that fails: the binds tried are a prefix of the reply, only the
\* last of them can have failed, and they are all N of the reply when none
\* failed.  One object is made for each bind tried.
C19_BindsInReplyOrder ==
    (ret.op \in ListOps /\ Len(calls) = 1 /\ calls[1].outcome = "reply") =>
        LET reply == calls[1].reply
            tried == Len(binds)
        IN  /\ tried <= Len(reply)
            /\ \A i \in 1 .. tried : binds[i].object_path = reply[i]
            /\ \A i \in 1 .. tried - 1 : binds[i].outcome = "reply"
            /\ Len(heap) = tried
            /\ (\A i \in 1 .. tried : binds[i].outcome = "reply") =>
                   /\ tried = Len(reply)
                   /\ ret.value = "ARRAY"
            /\ ret.value = "ARRAY" => tried = Len(reply)

\* A reply of two paths whose first bind failed: one bind tried, not two.
C19_Witness ==
    /\ ret.op \in ListOps
    /\ Len(calls) = 1
    /\ Len(calls[1].reply) = 2
    /\ Len(binds) = 1
    /\ binds[1].outcome # "reply"
    /\ ret.value = "NULL"

\* The step made a proxy: the transport was established.
ProxyMade(p) == proxies[p].state # "live" /\ proxies'[p].state = "live"

\* ConnectionFailed: the client's error naming the connect that failed.
ConnectionFailed(r) ==
    /\ ClientErrorReported(r)
    /\ r.error.message[1] = "Failed to connect to colord"

\* The last call was a connect, on a client without a proxy, that failed.
ConnectFailed ==
    /\ ret.op = "connect"
    /\ ret.value = "FALSE"
    /\ clients[ret.client].proxy = NULL
    /\ ret.error # NoError

\* C17: a connect that cannot establish the transport fails with
\* ConnectionFailed and leaves the client as it was: no proxy, no cached
\* version, no signal handler; the connect that follows on that client is
\* not turned away by the check for an existing proxy, and makes the proxy
\* when the bus can be reached.
C17_ConnectFailureLeavesUnconnected ==
    [][/\ (/\ ret'.op = "connect"
           /\ clients[ret'.client].proxy = NULL
           /\ \A p \in Proxies : ~ProxyMade(p)) =>
              /\ ret'.value = "FALSE"
              /\ ConnectionFailed(ret')
              /\ UNCHANGED objVars
              /\ clients'[ret'.client].proxy = NULL
              /\ clients'[ret'.client].daemon_version = "NULL"
              /\ \A p \in Proxies : proxies'[p].state = "live" =>
                     \E c \in Instances : c # ret'.client /\ clients'[c].proxy = p
       /\ (ConnectFailed /\ ret'.op = "connect" /\ ret'.client = ret.client) =>
              \/ ret'.value = "TRUE" /\ clients'[ret'.client].proxy # NULL
              \/ ConnectionFailed(ret')]_vars

\* A connect that failed: the error is set and the client has no proxy.
C17_Witness ==
    /\ ConnectFailed
    /\ ConnectionFailed(ret)
    /\ clients[ret.client].daemon_version = "NULL"
    /\ \A p \in Proxies : proxies[p].state = "none"

\* C20: a connect that establishes the transport succeeds whether or not the
\* daemon's property is there: the client has the new proxy, with the signal
\* callback connected once, and the version the bus served -- unset when the
\* property is absent -- and the remote operation that follows is sent to the
\* daemon.
C20_ConnectWithoutVersion ==
    [][/\ \A p \in Proxies :
              (ret'.op = "connect" /\ ProxyMade(p)) =>
                  /\ ret'.value = "TRUE"
                  /\ ret'.error = NoError
                  /\ clients'[ret'.client].proxy = p
                  /\ proxies'[p].handlers = 1
                  /\ clients'[ret'.client].daemon_version = Title
                  /\ Title = "NULL" => clients'[ret'.client].daemon_version = "NULL"
       /\ (/\ ret.op = "connect"
           /\ ret.value = "TRUE"
           /\ ret'.op \in RemoteOps
           /\ ret'.client = ret.client) => Len(calls') = 1]_vars

\* A client connected while the property was absent: connected, callback
\* connected, no version.
C20_Witness ==
    /\ ret.op = "connect"
    /\ ret.value = "TRUE"
    /\ Title = "NULL"
    /\ Connected(ret.client)
    /\ clients[ret.client].daemon_version = "NULL"
    /\ proxies[clients[ret.client].proxy].handlers = 1

\* A remote operation sent to the daemon by a client that has no version.
C20_WitnessOperation ==
    /\ ret.op \in RemoteOps
    /\ Connected(ret.client)
    /\ clients[ret.client].daemon_version = "NULL"
    /\ Len(calls) = 1
    /\ calls[1].outcome = "reply"

\* The clients that are alive and hold the proxy p.
OwnersOf(p) == {c \in Instances : clients[c].allocated /\ clients[c].proxy = p}

\* C16: a client has at most one live transport in every state, also when
\* connect runs on it in two threads at once: every proxy that is alive is
\* the proxy of exactly one live client -- none was written over and left
\* behind -- and has the signal callback connected once.
\* (In SpecThreads two connects pass the test for an existing proxy before
\* either stores its own.)
C16_OneTransportPerClient ==
    \A p \in Proxies :
        proxies[p].state = "live" =>
            /\ Cardinality(OwnersOf(p)) = 1
            /\ proxies[p].handlers = 1

\* C18: however cd_client_new and g_object_unref interleave in several
\* threads, at most one client is alive at a time, and cd_client_new never
\* returns a client whose last reference has been dropped.
\* (In SpecThreads two threads find cd_client_object NULL and each makes a
\* client; a thread that found it set takes its reference after the last
\* one was dropped.)
C18_OneLiveInstance ==
    /\ Cardinality({c \in Instances : clients[c].allocated}) <= 1
    /\ (ret.op = "new" /\ ret.value = "OBJECT") => clients[ret.client].allocated

CreateMethods == {"CreateDevice", "CreateProfile"}

DeleteMethods == {"DeleteDevice", "DeleteProfile"}

RECURSIVE ServiceObjects(_, _)
ServiceObjects(cs, objects) ==
    IF cs = <<>> THEN objects
    ELSE LET call == Head(cs)
             after ==
                 IF call.outcome # "reply" THEN objects
                 ELSE IF call.method \in CreateMethods
                 THEN objects \cup {[id |-> call.args[1],
                                     object_path |-> call.reply[1]]}
                 ELSE IF call.method \in DeleteMethods
                 THEN {o \in objects : o.id # call.args[1]}
                 ELSE objects
         IN  ServiceObjects(Tail(cs), after)

\* The last call was a create whose reply came and whose bind failed.
CreateBindFailed ==
    /\ BindFailed
    /\ ret.op \in {"create_device", "create_profile"}

\* C22: dropping objects locally deletes nothing remotely.  No create, find or
\* list call makes a DeleteDevice or DeleteProfile call, also when it drops
\* the objects of a pass because a bind failed; so the object CreateDevice or
\* CreateProfile made on the service is still there when the create call has
\* returned NULL and released its local object.
C22_NoRemoteDeleteOnDisposal ==
    /\ ret.op \in ListOps \cup ObjectOps =>
           \A i \in 1 .. Len(calls) : calls[i].method \notin DeleteMethods
    /\ BindFailed =>
           /\ Allocated = {}
           /\ ret.value = "NULL"
    /\ CreateBindFailed =>
           /\ calls # <<>>
           /\ calls[1].method \in CreateMethods
           /\ [id |-> calls[1].args[1], object_path |-> calls[1].reply[1]]
                  \in ServiceObjects(calls, {})

\* create_device ("epson-9800", 0) whose bind failed: NULL, the local object
\* released, the device still on the service.
C22_Witness ==
    /\ CreateBindFailed
    /\ ret.op = "create_device"
    /\ calls[1].args = <<"epson-9800", 0>>
    /\ ret.value = "NULL"
    /\ heap[1].ref_count = 0
    /\ ServiceObjects(calls, {}) =
           {[id |-> "epson-9800", object_path |-> calls[1].reply[1]]}

\* A list call that dropped a bound object after a later bind failed, and
\* called nothing but the list method.
C22_WitnessList ==
    /\ BindFailed
    /\ ret.op = "get_profiles"
    /\ Len(heap) = 2
    /\ heap[1].bound
    /\ heap[1].ref_count = 0
    /\ Len(calls) = 1

\* The last call was a remote operation made on a connected client.
ConnectedCall ==
    /\ ret.op \in RemoteOps
    /\ clients[ret.client].proxy # NULL

\* What a remote operation returns when it succeeds.
ResultValue(op) ==
    IF op \in ListOps THEN "ARRAY" ELSE IF op \in ObjectOps THEN "OBJECT" ELSE "TRUE"

\* C23: a list, create, find or delete call on a connected client ends in one
\* of two ways and no other: with its result (an array, an object, TRUE) and
\* no error set, or with no result (NULL, FALSE) and the error set exactly
\* once.
C23_ResultXorError ==
    ConnectedCall =>
        \/ /\ ret.value = ResultValue(ret.op)
           /\ ret.error = NoError
           /\ ret.error_sets = 0
        \/ /\ ret.value = FailureValue(ret.op)
           /\ ret.result = <<>>
           /\ ret.error # NoError
           /\ ret.error_sets = 1

\* A list call that failed in its second bind: NULL, the error set once.
C23_Witness ==
    /\ ConnectedCall
    /\ ret.op = "get_devices"
    /\ Len(binds) = 2
    /\ binds[2].outcome = "error"
    /\ ret.value = "NULL"
    /\ ret.error_sets = 1

\* create_profile that returned its object: no error.
C23_WitnessResult ==
    /\ ConnectedCall
    /\ ret.op = "create_profile"
    /\ ret.value = "OBJECT"
    /\ Len(ret.result) = 1
    /\ ret.error = NoError

\* delete_profile that failed: FALSE, the error set once.
C23_WitnessDelete ==
    /\ ConnectedCall
    /\ ret.op = "delete_profile"
    /\ ret.value = "FALSE"
    /\ ret.error_sets = 1
=============================================================================
